---- MODULE Spec2Model ----
(***************************************************************************)
(* Model of emuvim/dcemulator/node.py (class Datacenter): the bookkeeping  *)
(* and allocation protocol of a logical data center.                        *)
(*                                                                          *)
(* Every method is cut at the places where it reads or writes shared state  *)
(* or calls a collaborator (the network fabric self.net, the resource model *)
(* self._resource_model, the registrar self.net.rm_registrar), so that the  *)
(* same actions serve the sequential specification Spec (one call at a      *)
(* time) and the interleaved specification ConcSpec (two caller threads).   *)
(* A collaborator call either succeeds atomically or raises and changes     *)
(* nothing.                                                                 *)
(***************************************************************************)
EXTENDS Integers, Sequences, FiniteSets, TLC

\* ------------------------------------------------------------------ bounds
MaxDC == 2          \* Datacenter objects ever constructed
MaxInst == 2        \* containers ever created by addDocker
MaxCreate == 2      \* calls of create() ever begun
MaxFail == 1        \* collaborator calls that raise

\* --------------------------------------------------------------- constants
DCDPID_BASE_INIT == 1000
DC_COUNTER_INIT == 1

Threads == {"t1", "t2"}
DCIds == 1..MaxDC
Insts == 1..MaxInst
Names == {"vnf1", "vnf2"}
Models == {"rm1", "rm2"}
Labels == {"datacenter"}
\* the Datacenters the set-up of the emulator makes: the first two
SetUpDCs == {1, 2}
None == "None"
EmptyNw == "{}"

\* the values the network argument of startCompute is called with: None, the
\* mapping {}, the list [] and a list of two attachment specs
NetArgs ==
  { [type |-> "None", val |-> <<>>],
    [type |-> "dict", val |-> <<EmptyNw>>],
    [type |-> "list", val |-> <<>>],
    [type |-> "list", val |-> <<"ip1", "ip2">>] }

VARIABLES
  DC_COUNTER,      \* Datacenter.DC_COUNTER (class attribute)
  DCDPID_BASE,     \* module global DCDPID_BASE
  dcs,             \* the Datacenter objects, by identity
  netSwitches,     \* fabric: switches created by addSwitch, in order
  netContainers,   \* fabric: the containers created by addDocker
  netLinks,        \* fabric: links added by addLink, in order
  rmAllocated,     \* resource models: successful allocate calls per instance
  rmFreed,         \* resource models: successful free calls per instance
  rm_registrar,    \* registrar: the (datacenter, model) pairs registered
  th,              \* the caller threads: position and locals of the call
  ninst,           \* number of container objects created so far
  nfail,           \* number of collaborator calls that raised
  dpidReturned,    \* history: values returned by _get_next_dc_dpid
  started,         \* history: per DC, instances returned by startCompute
                   \*          and not yet removed by a stopCompute
  stopped,         \* history: instances removed by a successful stopCompute
  snap             \* history: what the initial state held, see Summary

vars == <<DC_COUNTER, DCDPID_BASE, dcs, netSwitches, netContainers, netLinks,
          rmAllocated, rmFreed, rm_registrar, th, ninst, nfail,
          dpidReturned, started, stopped, snap>>

fabric == <<netSwitches, netContainers, netLinks>>
rmodel == <<rmAllocated, rmFreed>>
hist == <<dpidReturned, started, stopped, snap>>

\* ------------------------------------------------------- pure conversions
HexDigit(n) ==
  <<"0","1","2","3","4","5","6","7","8","9","a","b","c","d","e","f">>[n + 1]

RECURSIVE Hex(_)
\* hex(n)[2:] for n >= 0
Hex(n) == IF n < 16 THEN <<HexDigit(n)>>
          ELSE Hex(n \div 16) \o <<HexDigit(n % 16)>>

RECURSIVE Dec(_)
\* "%d" % n for n >= 0
Dec(n) == IF n < 10 THEN <<HexDigit(n)>>
          ELSE Dec(n \div 10) \o <<HexDigit(n % 10)>>

\* "dc%d" % counter
InternalName(counter) == <<"d", "c">> \o Dec(counter)

\* "%s.s1" % self.name
SwitchName(name) == name \o <<".", "s", "1">>

\* the argument's value is taken as it is
NormalizeNetwork_asis(network) == network.val

\* lines 135-141: the normalisation of the network argument
NormalizeNetwork(network) ==
  LET n1 == IF network.type = "None"
            THEN [type |-> "dict", val |-> <<EmptyNw>>] ELSE network
      n2 == IF n1.type = "dict"
            THEN [type |-> "list", val |-> <<n1.val[1]>>] ELSE n1
  IN IF n2.type = "list" /\ Len(n2.val) < 1
     THEN Append(n2.val, EmptyNw) ELSE n2.val

\* -------------------------------------------------------------- the state
NoDC == [state |-> "none", name |-> <<>>, label |-> None, switch |-> 0,
         containers |-> <<>>, resource_model |-> None]

\* a thread that runs no call.  The locals of a call: arg is the network
\* argument as the caller gave it, network the variable after lines 135-141,
\* d the container, tmp the value a += has read or the position of a loop
Idle == [pc |-> "idle", op |-> "none", dc |-> 0, name |-> None, rm |-> None,
         arg |-> [type |-> "None", val |-> <<>>],
         network |-> <<>>, d |-> 0, tmp |-> 0, ret |-> "none"]

\* the instances that hold a grant of a resource model
ActiveGrants == {i \in Insts : rmAllocated[i] > rmFreed[i]}

\* what the Datacenters and their collaborators hold: the Datacenters'
\* attributes and containers maps, the containers and links of the fabric,
\* the instances with a grant
Summary ==
  [dcs |-> dcs, netContainers |-> netContainers, netLinks |-> netLinks,
   active |-> ActiveGrants]

\* the process has just imported the module: no Datacenter exists yet
Boot ==
  /\ DC_COUNTER = DC_COUNTER_INIT
  /\ DCDPID_BASE = DCDPID_BASE_INIT
  /\ dcs = [d \in DCIds |-> NoDC]
  /\ netSwitches = <<>>
  /\ netContainers = {}
  /\ netLinks = <<>>
  /\ rmAllocated = [i \in Insts |-> 0]
  /\ rmFreed = [i \in Insts |-> 0]
  /\ rm_registrar = <<>>
  /\ th = [t \in Threads |-> Idle]
  /\ ninst = 0
  /\ nfail = 0
  /\ dpidReturned = <<>>
  /\ started = [d \in DCIds |-> {}]
  /\ stopped = {}
  /\ snap = Summary

\* The state the set-up of the emulator leaves: the Datacenters SetUpDCs
\* constructed one after the other and attached to the fabric; with `created`,
\* create() has been called once on each, in the same order; with `running`,
\* the first of them has started the compute instance "vnf1" with the default
\* network; with models[d] a resource model, Datacenter d was assigned that
\* model, in the order of construction, at the very beginning.
SetUpWith(created, running, models) ==
  /\ DC_COUNTER = DC_COUNTER_INIT + Cardinality(SetUpDCs)
  /\ DCDPID_BASE =
       DCDPID_BASE_INIT + (IF created THEN Cardinality(SetUpDCs) ELSE 0)
  /\ dcs = [d \in DCIds |->
             IF d \in SetUpDCs
             THEN [state |-> "live",
                   name |-> InternalName(DC_COUNTER_INIT + d - 1),
                   label |-> "datacenter",
                   switch |-> IF created THEN d ELSE 0,
                   containers |-> IF running /\ d = 1 THEN ("vnf1" :> 1)
                                  ELSE <<>>,
                   resource_model |-> models[d]]
             ELSE NoDC]
  /\ netSwitches =
       IF created
       THEN [d \in SetUpDCs |->
              [name |-> SwitchName(InternalName(DC_COUNTER_INIT + d - 1)),
               dpid |-> Hex(DCDPID_BASE_INIT + d)]]
       ELSE <<>>
  /\ netContainers = IF running
                     THEN {[name |-> "vnf1", id |-> 1, datacenter |-> 1]}
                     ELSE {}
  /\ netLinks = IF running
                THEN <<[node1 |-> 1, node2 |-> 1, params1 |-> EmptyNw]>>
                ELSE <<>>
  /\ rmAllocated = [i \in Insts |->
                     IF running /\ i = 1 /\ models[1] # None THEN 1 ELSE 0]
  /\ rmFreed = [i \in Insts |-> 0]
  /\ rm_registrar =
       LET ds == {d \in SetUpDCs : models[d] # None}
           Nth(k) == CHOOSE d \in ds : Cardinality({e \in ds : e < d}) = k - 1
       IN [k \in 1..Cardinality(ds) |-> <<Nth(k), models[Nth(k)]>>]
  /\ th = [t \in Threads |-> Idle]
  /\ ninst = IF running THEN 1 ELSE 0
  /\ nfail = 0
  /\ dpidReturned = IF created THEN [d \in SetUpDCs |-> DCDPID_BASE_INIT + d]
                    ELSE <<>>
  /\ started = [d \in DCIds |-> IF running /\ d = 1 THEN {1} ELSE {}]
  /\ stopped = {}
  /\ snap = Summary

SetUp(created, running) ==
  SetUpWith(created, running, [d \in SetUpDCs |-> None])

Init == SetUp(TRUE, FALSE)

\* a call ends: the value returned, or the kind of the exception raised
Done(t, ret) ==
  [th EXCEPT ![t] = [Idle EXCEPT !.pc = "done", !.op = th[t].op,
                                 !.dc = th[t].dc, !.name = th[t].name,
                                 !.rm = th[t].rm, !.ret = ret]]

Goto(t, pc) == [th EXCEPT ![t].pc = pc]

Live(d) == dcs[d].state = "live"
Created(d) == Live(d) /\ dcs[d].switch # 0

Range(f) == {f[x] : x \in DOMAIN f}

\* a collaborator call may raise while the budget of failures lasts
MayRaise == nfail < MaxFail

\* the record of a call that has just been entered
Enter(op, d, n, rm) ==
  [Idle EXCEPT !.pc = op, !.op = op, !.dc = d, !.name = n, !.rm = rm]

\* ------------------------------------------------- the network fabric (net)
\* self.net.getAllContainers(): the containers of the whole fabric
getAllContainers == netContainers

\* self.net.addDocker(name, ...): a new container object in the fabric
addDocker(d, name, id) ==
  netContainers \cup {[name |-> name, id |-> id, datacenter |-> d]}

\* self.net.removeDocker(name)
removeDocker(name) == {c \in netContainers : c.name # name}

\* self.net.addLink(d, self.switch, params1=nw, cls=Link)
addLink(node1, node2, nw) ==
  Append(netLinks, [node1 |-> node1, node2 |-> node2, params1 |-> nw])

\* self.net.removeLink(link=None, node1=..., node2=...)
removeLink(node1, node2) ==
  SelectSeq(netLinks, LAMBDA l : ~(l.node1 = node1 /\ l.node2 = node2))

\* self.net.addSwitch(name, dpid=...)
addSwitch(name, dpid) == Append(netSwitches, [name |-> name, dpid |-> dpid])

\* ------------------------------------------------------ Datacenter.__init__
\* a counter that is never advanced
IncrDC_none(v) == v

\* line 80: Datacenter.DC_COUNTER += 1
IncrDC(v) == v + 1

\* the next Datacenter object to be constructed
FreshDC == CHOOSE d \in DCIds : dcs[d].state = "none" /\
                                \A e \in DCIds : e < d => dcs[e].state # "none"

\* lines 76-79: the internal name is formatted from the class counter
init_name(t, label) ==
  /\ th[t].pc = "idle"
  /\ \E d \in DCIds : dcs[d].state = "none"
  /\ dcs' = [dcs EXCEPT ![FreshDC] =
               [NoDC EXCEPT !.state = "init", !.label = label,
                            !.name = InternalName(DC_COUNTER)]]
  /\ th' = [th EXCEPT ![t] = [Enter("__init__", FreshDC, None, None)
                                EXCEPT !.pc = "init_load"]]
  /\ UNCHANGED <<DC_COUNTER, DCDPID_BASE, fabric, rmodel, rm_registrar,
                 ninst, nfail, hist>>

\* line 80, the read of Datacenter.DC_COUNTER += 1
init_load(t) ==
  /\ th[t].pc = "init_load"
  /\ th' = [th EXCEPT ![t].pc = "init_store", ![t].tmp = DC_COUNTER]
  /\ UNCHANGED <<DC_COUNTER, DCDPID_BASE, dcs, fabric, rmodel, rm_registrar,
                 ninst, nfail, hist>>

\* line 80, the write of Datacenter.DC_COUNTER += 1, and lines 82-92
init_store(t) ==
  /\ th[t].pc = "init_store"
  /\ DC_COUNTER' = IncrDC(th[t].tmp)
  /\ dcs' = [dcs EXCEPT ![th[t].dc].state = "live"]
  /\ th' = Done(t, "ok")
  /\ UNCHANGED <<DCDPID_BASE, fabric, rmodel, rm_registrar,
                 ninst, nfail, hist>>

\* the Datacenter object is dropped by its owner: nothing of it but the name
\* it was given is of any account afterwards
Discard(d) ==
  /\ Live(d)
  /\ \A t \in Threads : th[t].pc \in {"idle", "done"} \/ th[t].dc # d
  /\ dcs' = [dcs EXCEPT ![d] = [NoDC EXCEPT !.state = "discarded",
                                          !.name = dcs[d].name]]
  /\ UNCHANGED <<DC_COUNTER, DCDPID_BASE, fabric, rmodel, rm_registrar, th,
                 ninst, nfail, hist>>

\* ------------------------------------- _get_next_dc_dpid and create
\* a counter that is never advanced
IncrDpid_none(v) == v

\* line 99: DCDPID_BASE += 1
IncrDpid(v) == v + 1

\* calls of create() begun so far
ncreate ==
  Len(dpidReturned) +
  Cardinality({u \in Threads : th[u].pc \in {"dpid_store", "dpid_return"}})

\* line 110 calls _get_next_dc_dpid; line 99, the read of DCDPID_BASE += 1
dpid_load(t, d) ==
  /\ th[t].pc = "idle"
  /\ Live(d)
  /\ th' = [th EXCEPT ![t] = [Enter("create", d, None, None)
                                EXCEPT !.pc = "dpid_store",
                                       !.tmp = DCDPID_BASE]]
  /\ UNCHANGED <<DC_COUNTER, DCDPID_BASE, dcs, fabric, rmodel, rm_registrar,
                 ninst, nfail, hist>>

\* line 99, the write of DCDPID_BASE += 1
dpid_store(t) ==
  /\ th[t].pc = "dpid_store"
  /\ DCDPID_BASE' = IncrDpid(th[t].tmp)
  /\ th' = [th EXCEPT ![t].pc = "dpid_return", ![t].tmp = 0]
  /\ UNCHANGED <<DC_COUNTER, dcs, fabric, rmodel, rm_registrar,
                 ninst, nfail, hist>>

\* line 100: return DCDPID_BASE
dpid_return(t) ==
  /\ th[t].pc = "dpid_return"
  /\ th' = [th EXCEPT ![t].pc = "create_addSwitch", ![t].tmp = DCDPID_BASE]
  /\ dpidReturned' = Append(dpidReturned, DCDPID_BASE)
  /\ UNCHANGED <<DC_COUNTER, DCDPID_BASE, dcs, fabric, rmodel, rm_registrar,
                 ninst, nfail, started, stopped, snap>>

\* lines 110-112: the switch is created in the fabric and kept
create_addSwitch(t) ==
  /\ th[t].pc = "create_addSwitch"
  /\ \/ /\ netSwitches' = addSwitch(SwitchName(dcs[th[t].dc].name),
                                    Hex(th[t].tmp))
        /\ dcs' = [dcs EXCEPT ![th[t].dc].switch = Len(netSwitches) + 1]
        /\ th' = Done(t, "ok")
        /\ UNCHANGED nfail
     \/ /\ MayRaise
        /\ nfail' = nfail + 1
        /\ th' = Done(t, "FabricError")
        /\ UNCHANGED <<netSwitches, dcs>>
  /\ UNCHANGED <<DC_COUNTER, DCDPID_BASE, netContainers, netLinks, rmodel,
                 rm_registrar, ninst, hist>>

\* ------------------------------------------------------------ startCompute
\* containers that addDocker may still create for the calls begun
ncompute ==
  ninst + Cardinality({u \in Threads : th[u].pc = "startCompute_addDocker"})

\* the check looks at this Datacenter's own map only
NameExists_local(d, name) == name \in DOMAIN dcs[d].containers

\* line 130: name in [c.name for c in self.net.getAllContainers()]
NameExists(d, name) == name \in {c.name : c \in getAllContainers}

\* the exception of addDocker is swallowed and the call goes on
addDocker_swallowed(t) == Goto(t, "startCompute_allocate")

\* lines 175-181: an exception of addDocker is not caught in startCompute
addDocker_raised(t) == Done(t, "FabricError")

\* lines 128-141: the duplicate check, then the defaults of the arguments
startCompute(t, d, name, network) ==
  /\ th[t].pc = "idle"
  /\ Created(d)
  /\ ncompute < MaxInst
  /\ IF NameExists(d, name)
     THEN th' = [th EXCEPT ![t] = [Enter("startCompute", d, name, None)
                                     EXCEPT !.pc = "done",
                                            !.ret = "NameConflict"]]
     ELSE th' = [th EXCEPT ![t] = [Enter("startCompute", d, name, None)
                                     EXCEPT !.pc = "startCompute_addDocker",
                                            !.arg = network,
                                            !.network =
                                               NormalizeNetwork(network)]]
  /\ UNCHANGED <<DC_COUNTER, DCDPID_BASE, dcs, fabric, rmodel, rm_registrar,
                 ninst, nfail, hist>>

\* lines 175-181: the container is created in the fabric, which rejects a
\* name it already holds
startCompute_addDocker(t) ==
  /\ th[t].pc = "startCompute_addDocker"
  /\ \/ /\ th[t].name \notin {c.name : c \in netContainers}
        /\ netContainers' = addDocker(th[t].dc, th[t].name, ninst + 1)
        /\ ninst' = ninst + 1
        /\ th' = [th EXCEPT ![t].pc = "startCompute_allocate",
                            ![t].d = ninst + 1]
        /\ UNCHANGED nfail
     \/ /\ th[t].name \in {c.name : c \in netContainers}
        /\ th' = addDocker_raised(t)
        /\ UNCHANGED <<netContainers, ninst, nfail>>
     \/ /\ MayRaise
        /\ nfail' = nfail + 1
        /\ th' = addDocker_raised(t)
        /\ UNCHANGED <<netContainers, ninst>>
  /\ UNCHANGED <<DC_COUNTER, DCDPID_BASE, dcs, netSwitches, netLinks, rmodel,
                 rm_registrar, hist>>

\* allocate is never due
AllocateDue_never(d) == FALSE

\* line 184: if self._resource_model is not None
AllocateDue(d) == dcs[d].resource_model # None

\* lines 183-185: the resource model, if one is assigned, allocates
startCompute_allocate(t) ==
  /\ th[t].pc = "startCompute_allocate"
  /\ \/ /\ ~AllocateDue(th[t].dc)
        /\ th' = Goto(t, "startCompute_addLink")
        /\ UNCHANGED <<rmAllocated, nfail>>
     \/ /\ AllocateDue(th[t].dc)
        /\ rmAllocated' = [rmAllocated EXCEPT ![th[t].d] = @ + 1]
        /\ th' = Goto(t, "startCompute_addLink")
        /\ UNCHANGED nfail
     \/ /\ AllocateDue(th[t].dc)
        /\ MayRaise
        /\ nfail' = nfail + 1
        /\ th' = Done(t, "AllocationError")
        /\ UNCHANGED rmAllocated
  /\ UNCHANGED <<DC_COUNTER, DCDPID_BASE, dcs, fabric, rmFreed, rm_registrar,
                 ninst, hist>>

\* the loop is left before its first turn
LoopDone_atonce(t) == TRUE

\* the for loop of line 190 has gone through every spec of the list
LoopDone(t) == th[t].tmp = Len(th[t].network)

\* lines 190-192: one turn of the loop over the network specs
startCompute_addLink(t) ==
  /\ th[t].pc = "startCompute_addLink"
  /\ ~LoopDone(t)
  /\ \/ /\ netLinks' = addLink(th[t].d, dcs[th[t].dc].switch,
                               th[t].network[th[t].tmp + 1])
        /\ th' = [th EXCEPT ![t].tmp = @ + 1]
        /\ UNCHANGED nfail
     \/ /\ MayRaise
        /\ nfail' = nfail + 1
        /\ th' = Done(t, "FabricError")
        /\ UNCHANGED netLinks
  /\ UNCHANGED <<DC_COUNTER, DCDPID_BASE, dcs, netSwitches, netContainers,
                 rmodel, rm_registrar, ninst, hist>>

\* lines 193-194 and 214: the bookkeeping entry, and the return of d
startCompute_bookkeeping(t) ==
  /\ th[t].pc = "startCompute_addLink"
  /\ LoopDone(t)
  /\ dcs' = [dcs EXCEPT ![th[t].dc].containers = (th[t].name :> th[t].d) @@ @]
  /\ started' = [started EXCEPT ![th[t].dc] = @ \cup {th[t].d}]
  /\ th' = Done(t, "ok")
  /\ UNCHANGED <<DC_COUNTER, DCDPID_BASE, fabric, rmodel, rm_registrar,
                 ninst, nfail, dpidReturned, stopped, snap>>

\* ------------------------------------------------------------- stopCompute
\* the entry is left in the map
DelKey_keep(f, k) == f

\* line 235: del self.containers[name]
DelKey(f, k) == [x \in DOMAIN f \ {k} |-> f[x]]

\* the check looks at the fabric's containers instead of the map
HasContainer_fabric(d, name) == name \in {c.name : c \in netContainers}

\* line 221: name in self.containers
HasContainer(d, name) == name \in DOMAIN dcs[d].containers

\* lines 220-223: the name must be a key of the bookkeeping map
stopCompute(t, d, name) ==
  /\ th[t].pc = "idle"
  /\ Created(d)
  /\ IF ~HasContainer(d, name)
     THEN th' = [th EXCEPT ![t] = [Enter("stopCompute", d, name, None)
                                     EXCEPT !.pc = "done",
                                            !.ret = "NotFound"]]
     ELSE th' = [th EXCEPT ![t] = [Enter("stopCompute", d, name, None)
                                     EXCEPT !.pc = "stopCompute_free"]]
  /\ UNCHANGED <<DC_COUNTER, DCDPID_BASE, dcs, fabric, rmodel, rm_registrar,
                 ninst, nfail, hist>>

\* free is never due
FreeDue_never(d) == FALSE

\* line 226: if self._resource_model is not None
FreeDue(d) == dcs[d].resource_model # None

\* lines 225-227: the resource model, if one is assigned, frees
stopCompute_free(t) ==
  /\ th[t].pc = "stopCompute_free"
  /\ LET self == dcs[th[t].dc] IN
     \/ /\ ~FreeDue(th[t].dc)
        /\ th' = Goto(t, "stopCompute_removeLink")
        /\ UNCHANGED <<rmFreed, nfail>>
     \/ /\ FreeDue(th[t].dc)
        /\ th[t].name \notin DOMAIN self.containers
        /\ th' = Done(t, "KeyError")
        /\ UNCHANGED <<rmFreed, nfail>>
     \/ /\ FreeDue(th[t].dc)
        /\ th[t].name \in DOMAIN self.containers
        /\ rmFreed' = [rmFreed EXCEPT ![self.containers[th[t].name]] = @ + 1]
        /\ th' = Goto(t, "stopCompute_removeLink")
        /\ UNCHANGED nfail
     \/ /\ FreeDue(th[t].dc)
        /\ th[t].name \in DOMAIN self.containers
        /\ MayRaise
        /\ nfail' = nfail + 1
        /\ th' = Done(t, "FreeError")
        /\ UNCHANGED rmFreed
  /\ UNCHANGED <<DC_COUNTER, DCDPID_BASE, dcs, fabric, rmAllocated,
                 rm_registrar, ninst, hist>>

\* lines 229-231: the links between the instance and the switch are removed
stopCompute_removeLink(t) ==
  /\ th[t].pc = "stopCompute_removeLink"
  /\ LET self == dcs[th[t].dc] IN
     \/ /\ th[t].name \notin DOMAIN self.containers
        /\ th' = Done(t, "KeyError")
        /\ UNCHANGED <<netLinks, nfail>>
     \/ /\ th[t].name \in DOMAIN self.containers
        /\ netLinks' = removeLink(self.containers[th[t].name], self.switch)
        /\ th' = Goto(t, "stopCompute_removeDocker")
        /\ UNCHANGED nfail
     \/ /\ th[t].name \in DOMAIN self.containers
        /\ MayRaise
        /\ nfail' = nfail + 1
        /\ th' = Done(t, "FabricError")
        /\ UNCHANGED netLinks
  /\ UNCHANGED <<DC_COUNTER, DCDPID_BASE, dcs, netSwitches, netContainers,
                 rmodel, rm_registrar, ninst, hist>>

\* lines 233-234: the container is removed from the fabric, which raises for
\* a name it does not hold
stopCompute_removeDocker(t) ==
  /\ th[t].pc = "stopCompute_removeDocker"
  /\ \/ /\ th[t].name \in {c.name : c \in netContainers}
        /\ netContainers' = removeDocker(th[t].name)
        /\ th' = Goto(t, "stopCompute_del")
        /\ UNCHANGED nfail
     \/ /\ th[t].name \notin {c.name : c \in netContainers}
        /\ th' = Done(t, "FabricError")
        /\ UNCHANGED <<netContainers, nfail>>
     \/ /\ MayRaise
        /\ nfail' = nfail + 1
        /\ th' = Done(t, "FabricError")
        /\ UNCHANGED netContainers
  /\ UNCHANGED <<DC_COUNTER, DCDPID_BASE, dcs, netSwitches, netLinks, rmodel,
                 rm_registrar, ninst, hist>>

\* lines 235 and 254: the bookkeeping entry is deleted; return True
stopCompute_del(t) ==
  /\ th[t].pc = "stopCompute_del"
  /\ LET self == dcs[th[t].dc] IN
     \/ /\ th[t].name \notin DOMAIN self.containers
        /\ th' = Done(t, "KeyError")
        /\ UNCHANGED <<dcs, started, stopped>>
     \/ /\ th[t].name \in DOMAIN self.containers
        /\ dcs' = [dcs EXCEPT ![th[t].dc].containers = DelKey(@, th[t].name)]
        /\ started' = [started EXCEPT ![th[t].dc] =
                         @ \ {self.containers[th[t].name]}]
        /\ stopped' = stopped \cup {self.containers[th[t].name]}
        /\ th' = Done(t, "ok")
  /\ UNCHANGED <<DC_COUNTER, DCDPID_BASE, fabric, rmodel, rm_registrar,
                 ninst, nfail, dpidReturned, snap>>

\* ----------------------------------------------------- listCompute, getStatus
RECURSIVE ValuesOf(_, _)
\* the values of a dict, each key once, in the dict's own order
ValuesOf(f, keys) ==
  IF keys = {} THEN <<>>
  ELSE LET k == CHOOSE x \in keys : TRUE
       IN <<f[k]>> \o ValuesOf(f, keys \ {k})

\* lines 256-261: list(self.containers.itervalues())
listCompute(d) == ValuesOf(dcs[d].containers, DOMAIN dcs[d].containers)

\* lines 263-273
getStatus(d) ==
  [label |-> dcs[d].label, internalname |-> dcs[d].name,
   switch |-> netSwitches[dcs[d].switch].name,
   n_running_containers |-> Cardinality(DOMAIN dcs[d].containers)]

\* a call of listCompute (lines 256-261): the caller gets the list
listCompute_call(t, d) ==
  /\ th[t].pc = "idle"
  /\ Live(d)
  /\ th' = [th EXCEPT ![t] = [Enter("listCompute", d, None, None)
                                EXCEPT !.pc = "done", !.ret = "ok"]]
  /\ UNCHANGED <<DC_COUNTER, DCDPID_BASE, dcs, fabric, rmodel, rm_registrar,
                 ninst, nfail, hist>>

\* a call of getStatus (lines 263-273): self.switch.name raises while the
\* Datacenter has no switch
getStatus_call(t, d) ==
  /\ th[t].pc = "idle"
  /\ Live(d)
  /\ th' = [th EXCEPT ![t] = [Enter("getStatus", d, None, None)
                                EXCEPT !.pc = "done",
                                       !.ret = IF Created(d) THEN "ok"
                                               ELSE "AttributeError"]]
  /\ UNCHANGED <<DC_COUNTER, DCDPID_BASE, dcs, fabric, rmodel, rm_registrar,
                 ninst, nfail, hist>>

\* ----------------------------------------------------- assignResourceModel
\* the check is left out
HasModel_never(d) == FALSE

\* line 281: self._resource_model is not None
HasModel(d) == dcs[d].resource_model # None

\* lines 281-282: a second model is refused
assignResourceModel(t, d, rm) ==
  /\ th[t].pc = "idle"
  /\ Live(d)
  /\ IF HasModel(d)
     THEN th' = [th EXCEPT ![t] = [Enter("assignResourceModel", d, None, rm)
                                     EXCEPT !.pc = "done",
                                            !.ret = "AlreadyAssigned"]]
     ELSE th' = [th EXCEPT ![t] = [Enter("assignResourceModel", d, None, rm)
                                     EXCEPT !.pc = "assignResourceModel_set"]]
  /\ UNCHANGED <<DC_COUNTER, DCDPID_BASE, dcs, fabric, rmodel, rm_registrar,
                 ninst, nfail, hist>>

\* line 283: self._resource_model = rm
assignResourceModel_set(t) ==
  /\ th[t].pc = "assignResourceModel_set"
  /\ dcs' = [dcs EXCEPT ![th[t].dc].resource_model = th[t].rm]
  /\ th' = Goto(t, "assignResourceModel_register")
  /\ UNCHANGED <<DC_COUNTER, DCDPID_BASE, fabric, rmodel, rm_registrar,
                 ninst, nfail, hist>>

\* lines 284-285: the pair is registered with the registrar
assignResourceModel_register(t) ==
  /\ th[t].pc = "assignResourceModel_register"
  /\ \/ /\ rm_registrar' = Append(rm_registrar, <<th[t].dc, th[t].rm>>)
        /\ th' = Done(t, "ok")
        /\ UNCHANGED nfail
     \/ /\ MayRaise
        /\ nfail' = nfail + 1
        /\ th' = Done(t, "RegistrarError")
        /\ UNCHANGED rm_registrar
  /\ UNCHANGED <<DC_COUNTER, DCDPID_BASE, dcs, fabric, rmodel,
                 ninst, hist>>

\* ---------------------------------------------------------- specifications
\* the caller takes the result of its call, or catches its exception
Return(t) ==
  /\ th[t].pc = "done"
  /\ th' = [th EXCEPT ![t] = Idle]
  /\ UNCHANGED <<DC_COUNTER, DCDPID_BASE, dcs, fabric, rmodel, rm_registrar,
                 ninst, nfail, hist>>

\* the single control-plane thread of the sequential specifications
Main == "t1"

\* Sequential use of the Datacenters the set-up has made: one thread, one
\* call at a time.
Next ==
  \/ \E d \in DCIds, name \in Names, network \in NetArgs :
       startCompute(Main, d, name, network)
  \/ startCompute_addDocker(Main)
  \/ startCompute_allocate(Main)
  \/ startCompute_addLink(Main)
  \/ startCompute_bookkeeping(Main)
  \/ \E d \in DCIds, name \in Names : stopCompute(Main, d, name)
  \/ stopCompute_free(Main)
  \/ stopCompute_removeLink(Main)
  \/ stopCompute_removeDocker(Main)
  \/ stopCompute_del(Main)
  \/ \E d \in DCIds, rm \in Models : assignResourceModel(Main, d, rm)
  \/ assignResourceModel_set(Main)
  \/ assignResourceModel_register(Main)
  \/ Return(Main)

Spec == Init /\ [][Next]_vars

\* The set-up itself, from the start of the process: Datacenters are
\* constructed, created (any number of times) and dropped, one call at a time.
SetupNext ==
  \/ \E label \in Labels : init_name(Main, label)
  \/ init_load(Main)
  \/ init_store(Main)
  \/ \E d \in DCIds : ncreate < MaxCreate /\ dpid_load(Main, d)
  \/ dpid_store(Main)
  \/ dpid_return(Main)
  \/ create_addSwitch(Main)
  \/ \E d \in DCIds : th[Main].pc = "idle" /\ Discard(d)
  \/ Return(Main)

SetupSpec == Boot /\ [][SetupNext]_vars

\* Two calls, one per thread, racing from a state the set-up leaves: their
\* steps interleave in any order, and no thread begins a second call.
ConcInit == SetUp(FALSE, FALSE) \/ SetUp(TRUE, FALSE) \/ SetUp(TRUE, TRUE)

ConcNext ==
  \E t \in Threads :
    \/ \E d \in DCIds : dpid_load(t, d)
    \/ dpid_store(t)
    \/ dpid_return(t)
    \/ create_addSwitch(t)
    \/ \E d \in DCIds, name \in Names, network \in NetArgs :
         startCompute(t, d, name, network)
    \/ startCompute_addDocker(t)
    \/ startCompute_allocate(t)
    \/ startCompute_addLink(t)
    \/ startCompute_bookkeeping(t)
    \/ \E d \in DCIds, name \in Names : stopCompute(t, d, name)
    \/ stopCompute_free(t)
    \/ stopCompute_removeLink(t)
    \/ stopCompute_removeDocker(t)
    \/ stopCompute_del(t)
    \/ \E d \in DCIds, rm \in Models : assignResourceModel(t, d, rm)
    \/ assignResourceModel_set(t)
    \/ assignResourceModel_register(t)

ConcSpec == ConcInit /\ [][ConcNext]_vars

\* Sequential use of two Datacenters from their construction on: create()
\* and the compute calls, one call at a time, in any order.
SeqInit == SetUp(FALSE, FALSE)

SeqNext ==
  \/ \E d \in DCIds : ncreate < MaxCreate /\ dpid_load(Main, d)
  \/ dpid_store(Main)
  \/ dpid_return(Main)
  \/ create_addSwitch(Main)
  \/ \E d \in DCIds, name \in Names, network \in NetArgs :
       startCompute(Main, d, name, network)
  \/ startCompute_addDocker(Main)
  \/ startCompute_allocate(Main)
  \/ startCompute_addLink(Main)
  \/ startCompute_bookkeeping(Main)
  \/ \E d \in DCIds, name \in Names : stopCompute(Main, d, name)
  \/ stopCompute_free(Main)
  \/ stopCompute_removeLink(Main)
  \/ stopCompute_removeDocker(Main)
  \/ stopCompute_del(Main)
  \/ \E d \in DCIds : listCompute_call(Main, d)
  \/ \E d \in DCIds : getStatus_call(Main, d)
  \/ \E d \in DCIds, rm \in Models : assignResourceModel(Main, d, rm)
  \/ assignResourceModel_set(Main)
  \/ assignResourceModel_register(Main)
  \/ Return(Main)

SeqSpec == SeqInit /\ [][SeqNext]_vars

\* Sequential startCompute and stopCompute calls from the states the set-up
\* may leave: the Datacenters created, each with or without a resource model,
\* the first one with or without a running instance.
StartStopInit ==
  \E running \in BOOLEAN, models \in [SetUpDCs -> Models \cup {None}] :
    SetUpWith(TRUE, running, models)

StartStopNext ==
  \/ \E d \in DCIds, name \in Names, network \in NetArgs :
       startCompute(Main, d, name, network)
  \/ startCompute_addDocker(Main)
  \/ startCompute_allocate(Main)
  \/ startCompute_addLink(Main)
  \/ startCompute_bookkeeping(Main)
  \/ \E d \in DCIds, name \in Names : stopCompute(Main, d, name)
  \/ stopCompute_free(Main)
  \/ stopCompute_removeLink(Main)
  \/ stopCompute_removeDocker(Main)
  \/ stopCompute_del(Main)
  \/ Return(Main)

StartStopSpec == StartStopInit /\ [][StartStopNext]_vars

\* ------------------------------------------------------------- properties
FabricNames == {c.name : c \in netContainers}

\* thread t is between two calls: its last call has returned or raised
Between(t) == th[t].pc \in {"idle", "done"}

\* C1: after every completed call, listCompute() of each Datacenter holds
\* exactly the instances a successful startCompute returned and no successful
\* stopCompute has removed since, each of them once.
C1_ListIsStartedNotStopped ==
  Between(Main) =>
    \A d \in DCIds :
      /\ Range(listCompute(d)) = started[d]
      /\ Len(listCompute(d)) = Cardinality(started[d])

\* two instances were started, one of them was stopped again, one is listed
C1_Witness ==
  /\ Between(Main)
  /\ stopped # {}
  /\ \E d \in DCIds : Len(listCompute(d)) = 1 /\ started[d] \cap stopped = {}
                      /\ ninst >= 2

\* C2: startCompute with a name some container of the fabric already has
\* (started by this Datacenter or by another one) fails with NameConflict,
\* and the call changes no containers map, nothing in the fabric and nothing
\* in the resource model.
C2_DuplicateNameRejected ==
  [][\A t \in Threads :
       (/\ th[t].pc = "idle"
        /\ th'[t].op = "startCompute"
        /\ th'[t].name \in FabricNames)
       => /\ th'[t].pc = "done"
          /\ th'[t].ret = "NameConflict"
          /\ UNCHANGED <<dcs, fabric, rmodel>>]_vars

\* a start was refused for a name that another Datacenter has started
C2_Witness ==
  \E t \in Threads :
    /\ th[t].pc = "done"
    /\ th[t].op = "startCompute"
    /\ th[t].ret = "NameConflict"
    /\ \E e \in DCIds \ {th[t].dc} : th[t].name \in DOMAIN dcs[e].containers

\* C3: stopCompute with a name that is no key of the Datacenter's containers
\* map fails with NotFound and changes no containers map, nothing in the
\* fabric and nothing in the resource model.
C3_UnknownNameNotFound ==
  [][\A t \in Threads :
       (/\ th[t].pc = "idle"
        /\ th'[t].op = "stopCompute"
        /\ th'[t].name \notin DOMAIN dcs[th'[t].dc].containers)
       => /\ th'[t].pc = "done"
          /\ th'[t].ret = "NotFound"
          /\ UNCHANGED <<dcs, fabric, rmodel>>]_vars

\* a stop was refused for a name that runs in another Datacenter
C3_Witness ==
  \E t \in Threads :
    /\ th[t].pc = "done"
    /\ th[t].op = "stopCompute"
    /\ th[t].ret = "NotFound"
    /\ th[t].name \in FabricNames

\* C4: the internal names of any two Datacenters differ, whether they are
\* alive or dropped, no two calls of create() pass the same datapath
\* identifier to the fabric, and the switches of the fabric have pairwise
\* different datapath identifiers.
C4_NamesAndDpidsDistinct ==
  /\ \A d, e \in DCIds :
       (d # e /\ dcs[d].state # "none" /\ dcs[e].state # "none")
       => dcs[d].name # dcs[e].name
  /\ \A i, j \in DOMAIN dpidReturned :
       i # j => Hex(dpidReturned[i]) # Hex(dpidReturned[j])
  /\ \A i, j \in DOMAIN netSwitches :
       i # j => netSwitches[i].dpid # netSwitches[j].dpid

\* two Datacenters were constructed and created, each with its own switch
C4_Witness ==
  \E d, e \in DCIds :
    /\ d # e
    /\ dcs[d].switch # 0
    /\ dcs[e].switch # 0
    /\ dcs[d].switch # dcs[e].switch

\* C5: assignResourceModel on a Datacenter that has a model fails with
\* AlreadyAssigned; the Datacenter keeps the model it had and nothing is
\* registered with the registrar.
C5_SecondAssignRefused ==
  [][\A t \in Threads :
       (/\ th[t].pc = "idle"
        /\ th'[t].op = "assignResourceModel"
        /\ dcs[th'[t].dc].resource_model # None)
       => /\ th'[t].pc = "done"
          /\ th'[t].ret = "AlreadyAssigned"
          /\ dcs' = dcs
          /\ rm_registrar' = rm_registrar]_vars

\* another model was refused, and the first one is still assigned
C5_Witness ==
  \E t \in Threads :
    /\ th[t].pc = "done"
    /\ th[t].ret = "AlreadyAssigned"
    /\ dcs[th[t].dc].resource_model \in Models \ {th[t].rm}

\* C6: allocate and free are strictly paired per instance: free is never
\* called without a successful allocate before it, neither is called twice,
\* and a stopped instance has as many successful allocates as frees.
C6_AllocateFreePaired ==
  \A i \in Insts :
    /\ rmFreed[i] <= rmAllocated[i]
    /\ rmFreed[i] <= 1
    /\ rmAllocated[i] <= 1
    /\ i \in stopped => rmAllocated[i] = rmFreed[i]

\* both threads have finished a startCompute of the same name, and no
\* collaborator failed for a reason of its own
RacedStart(t, u) ==
  /\ t # u
  /\ th[t].pc = "done" /\ th[t].op = "startCompute"
  /\ th[u].pc = "done" /\ th[u].op = "startCompute"
  /\ th[t].name = th[u].name
  /\ nfail = 0

\* C7: of two racing startCompute calls with the same name at most one
\* returns an instance, the other one fails with NameConflict, and the fabric
\* holds at most one container of that name.
C7_RacingStartsOneWins ==
  \A t, u \in Threads :
    RacedStart(t, u) =>
      /\ ~(th[t].ret = "ok" /\ th[u].ret = "ok")
      /\ th[t].ret = "NameConflict" \/ th[u].ret = "NameConflict"
      /\ Cardinality({c \in netContainers : c.name = th[t].name}) <= 1

\* both threads have finished an assignResourceModel of different models on
\* the same Datacenter, and the registrar did not fail
RacedAssign(t, u) ==
  /\ t # u
  /\ th[t].pc = "done" /\ th[t].op = "assignResourceModel"
  /\ th[u].pc = "done" /\ th[u].op = "assignResourceModel"
  /\ th[t].dc = th[u].dc
  /\ th[t].rm # th[u].rm
  /\ nfail = 0

\* C8: of two racing assignResourceModel calls on one Datacenter at most one
\* succeeds and the other fails with AlreadyAssigned; one pair is registered
\* for the Datacenter, with the model the Datacenter refers to.
C8_RacingAssignsOneWins ==
  \A t, u \in Threads :
    RacedAssign(t, u) =>
      /\ ~(th[t].ret = "ok" /\ th[u].ret = "ok")
      /\ th[t].ret = "AlreadyAssigned" \/ th[u].ret = "AlreadyAssigned"
      /\ \A i, j \in DOMAIN rm_registrar :
           rm_registrar[i][1] = rm_registrar[j][1] => i = j
      /\ \A i \in DOMAIN rm_registrar :
           rm_registrar[i][2] = dcs[rm_registrar[i][1]].resource_model

\* the create() calls of the two threads are on different Datacenters
CreatesOnDifferentDCs ==
  \A t, u \in Threads :
    (t # u /\ th[t].op = "create" /\ th[u].op = "create")
    => th[t].dc # th[u].dc

\* C9: when create() calls on different Datacenters race, no two calls of
\* _get_next_dc_dpid return the same identifier, and the counter has advanced
\* by one for every call that has written it.
C9_DpidAllocatorThreadSafe ==
  CreatesOnDifferentDCs =>
    /\ \A i, j \in DOMAIN dpidReturned :
         i # j => dpidReturned[i] # dpidReturned[j]
    /\ DCDPID_BASE = DCDPID_BASE_INIT + Len(dpidReturned)
         + Cardinality({t \in Threads : th[t].pc = "dpid_return"})

\* C10: when addDocker creates no container, startCompute fails there, and
\* neither that step nor the call's entry has called allocate, added a link
\* or changed a containers map.
C10_AddDockerFailureLeavesNothing ==
  [][\A t \in Threads :
       /\ (th[t].pc = "idle" /\ th'[t].op = "startCompute")
          => UNCHANGED <<dcs, fabric, rmodel>>
       /\ (th[t].pc = "startCompute_addDocker"
           /\ th'[t] # th[t]
           /\ netContainers' = netContainers)
          => /\ th'[t].pc = "done"
             /\ th'[t].ret = "FabricError"
             /\ UNCHANGED <<dcs, fabric, rmodel>>]_vars

\* addDocker raised for a name that was free, in a Datacenter with a model
C10_Witness ==
  \E t \in Threads :
    /\ th[t].pc = "done"
    /\ th[t].op = "startCompute"
    /\ th[t].ret = "FabricError"
    /\ th[t].name \notin FabricNames
    /\ dcs[th[t].dc].resource_model # None
    /\ netLinks = <<>>

\* C11: between two calls, every container of the fabric is the value of its
\* name in the containers map of the Datacenter that created it, and every
\* entry of a containers map is a container of the fabric.
C11_NoInstanceOutlivesEntry ==
  Between(Main) =>
    /\ \A c \in netContainers :
         /\ c.name \in DOMAIN dcs[c.datacenter].containers
         /\ dcs[c.datacenter].containers[c.name] = c.id
    /\ \A d \in DCIds : \A n \in DOMAIN dcs[d].containers :
         \E c \in netContainers :
           c.name = n /\ c.id = dcs[d].containers[n] /\ c.datacenter = d

\* C12: no name is a key of the containers maps of two Datacenters, no
\* instance is a value of two entries, and no step replaces the instance a
\* name is mapped to while the name stays in the map.
C12_OneMapOneInstance ==
  /\ [](\A d, e \in DCIds : \A n \in DOMAIN dcs[d].containers :
          \A m \in DOMAIN dcs[e].containers :
            (n = m \/ dcs[d].containers[n] = dcs[e].containers[m])
            => (d = e /\ n = m))
  /\ [][\A d \in DCIds :
          \A n \in DOMAIN dcs[d].containers \cap DOMAIN dcs'[d].containers :
            dcs'[d].containers[n] = dcs[d].containers[n]]_vars

\* both Datacenters run an instance, under different names, and the second
\* of the two starts has just returned
C12_Witness ==
  /\ \A d \in SetUpDCs : DOMAIN dcs[d].containers # {}
  /\ th[Main].pc = "done"
  /\ th[Main].op = "startCompute"
  /\ th[Main].ret = "ok"

\* the container object i is in the fabric
InFabric(i) == \E c \in netContainers : c.id = i

\* the container object i is a value of some containers map
InMap(i) == \E d \in DCIds : \E n \in DOMAIN dcs[d].containers :
              dcs[d].containers[n] = i

\* the attachment specs of the links the fabric holds for container i, in the
\* order in which they were added
LinksOf(i) ==
  LET ls == SelectSeq(netLinks, LAMBDA l : l.node1 = i)
  IN [k \in 1..Len(ls) |-> ls[k].params1]

\* the allocate calls container i must have got: one with a model, else none
GrantDue(d) == IF dcs[d].resource_model # None THEN 1 ELSE 0

\* C13: a startCompute call creates the container after the name check and
\* before anything else, then calls allocate once if and only if a resource
\* model is assigned, then adds one link per network spec in list order, and
\* inserts the instance into the containers map last, when the container, the
\* grant and all links exist.
C13_StartOrder ==
  [][\A t \in Threads : \A i \in Insts :
       (th[t].op = "startCompute" /\ th'[t] # th[t]) =>
         /\ (~InFabric(i) /\ InFabric(i)')
            => /\ th[t].name \notin FabricNames
               /\ rmAllocated[i] = 0 /\ LinksOf(i) = <<>> /\ ~InMap(i)
               /\ UNCHANGED <<dcs, netLinks, rmodel>>
         /\ rmAllocated'[i] # rmAllocated[i]
            => /\ th[t].d = i /\ InFabric(i)
               /\ rmAllocated[i] = 0 /\ rmAllocated'[i] = 1
               /\ dcs[th[t].dc].resource_model # None
               /\ LinksOf(i) = <<>> /\ ~InMap(i)
               /\ UNCHANGED <<dcs, fabric>>
         /\ LinksOf(i)' # LinksOf(i)
            => /\ th[t].d = i /\ InFabric(i)
               /\ rmAllocated[i] = GrantDue(th[t].dc)
               /\ LinksOf(i)' = SubSeq(th[t].network, 1, Len(LinksOf(i)) + 1)
               /\ ~InMap(i)
               /\ UNCHANGED <<dcs, netContainers, rmodel>>
         /\ (~InMap(i) /\ InMap(i)')
            => /\ th[t].d = i /\ InFabric(i)
               /\ rmAllocated[i] = GrantDue(th[t].dc)
               /\ LinksOf(i) = th[t].network
               /\ th'[t].pc = "done" /\ th'[t].ret = "ok"
               /\ UNCHANGED <<fabric, rmodel>>]_vars

\* a start with a resource model and two network specs has returned: the
\* instance has its grant and its two links, and is in the map
C13_Witness ==
  \E t \in Threads : \E i \in Insts :
    /\ th[t].pc = "done" /\ th[t].op = "startCompute" /\ th[t].ret = "ok"
    /\ i \in started[th[t].dc]
    /\ dcs[th[t].dc].containers[th[t].name] = i
    /\ rmAllocated[i] = 1
    /\ LinksOf(i) = <<"ip1", "ip2">>

\* C14: a stopCompute call that has passed its check first calls free once if
\* and only if a resource model is assigned, then removes the links between
\* the instance and the switch, then removes the container from the fabric,
\* and deletes the entry of the containers map last: the entry is in the map
\* at every earlier step.
C14_StopOrder ==
  [][\A t \in Threads :
       (th'[t].op = "stopCompute" /\ th'[t] # th[t] /\ th'[t].pc # "idle") =>
         LET self == dcs[th'[t].dc]
             name == th'[t].name
             from == th[t].pc
             to   == th'[t].pc
         IN
         /\ (from = "idle" /\ to # "done")
            => /\ to = "stopCompute_free"
               /\ name \in DOMAIN self.containers
               /\ UNCHANGED <<dcs, fabric, rmodel>>
         /\ from = "stopCompute_free"
            => /\ to \in {"stopCompute_removeLink", "done"}
               /\ name \in DOMAIN self.containers
               /\ to = "stopCompute_removeLink"
                  => rmFreed' =
                       [rmFreed EXCEPT ![self.containers[name]] =
                          @ + (IF self.resource_model # None THEN 1 ELSE 0)]
               /\ to = "done" => rmFreed' = rmFreed
               /\ UNCHANGED <<dcs, fabric, rmAllocated>>
         /\ from = "stopCompute_removeLink"
            => /\ to \in {"stopCompute_removeDocker", "done"}
               /\ name \in DOMAIN self.containers
               /\ InFabric(self.containers[name])
               /\ to = "stopCompute_removeDocker"
                  => \A i \in Insts :
                       LinksOf(i)' = IF i = self.containers[name]
                                     THEN <<>> ELSE LinksOf(i)
               /\ to = "done" => netLinks' = netLinks
               /\ UNCHANGED <<dcs, netContainers, netSwitches, rmodel>>
         /\ from = "stopCompute_removeDocker"
            => /\ to \in {"stopCompute_del", "done"}
               /\ name \in DOMAIN self.containers
               /\ LinksOf(self.containers[name]) = <<>>
               /\ to = "stopCompute_del"
                  => netContainers' =
                       {c \in netContainers : c.id # self.containers[name]}
               /\ to = "done" => netContainers' = netContainers
               /\ UNCHANGED <<dcs, netLinks, netSwitches, rmodel>>
         /\ from = "stopCompute_del"
            => /\ to = "done" /\ th'[t].ret = "ok"
               /\ name \in DOMAIN self.containers
               /\ ~InFabric(self.containers[name])
               /\ dcs' = [dcs EXCEPT ![th[t].dc].containers =
                            [n \in DOMAIN self.containers \ {name} |->
                               self.containers[n]]]
               /\ UNCHANGED <<fabric, rmodel>>
         /\ dcs' # dcs => from = "stopCompute_del"]_vars

\* a stop in a Datacenter with a resource model has returned: the instance
\* had a grant, which was freed, and is gone from the map and from the fabric
C14_Witness ==
  \E t \in Threads : \E i \in stopped :
    /\ th[t].pc = "done" /\ th[t].op = "stopCompute" /\ th[t].ret = "ok"
    /\ dcs[th[t].dc].resource_model # None
    /\ rmAllocated[i] = 1 /\ rmFreed[i] = 1
    /\ ~InFabric(i) /\ ~InMap(i)
    /\ LinksOf(i) = <<>>

ComputeOps == {"startCompute", "stopCompute", "listCompute", "getStatus",
               "assignResourceModel"}

\* C15: in sequential use the k-th identifier _get_next_dc_dpid returns is
\* the reserved base plus k, so each is above the base and above all earlier
\* ones and the counter advances by one per call; no step of startCompute,
\* stopCompute, listCompute, getStatus or assignResourceModel changes the
\* counter.
C15_DpidStrictlyIncreasing ==
  /\ [](/\ \A k \in DOMAIN dpidReturned :
             dpidReturned[k] = DCDPID_BASE_INIT + k
        /\ DCDPID_BASE = DCDPID_BASE_INIT + Len(dpidReturned)
             + (IF th[Main].pc = "dpid_return" THEN 1 ELSE 0))
  /\ [][\A t \in Threads :
          (th'[t] # th[t] /\ th'[t].op \in ComputeOps)
          => /\ DCDPID_BASE' = DCDPID_BASE
             /\ dpidReturned' = dpidReturned]_vars

\* two identifiers have been returned, and a compute call has run since
C15_Witness ==
  /\ Len(dpidReturned) = 2
  /\ dpidReturned[2] > dpidReturned[1]
  /\ th[Main].pc = "done"
  /\ th[Main].op \in ComputeOps

\* the number of attachment specs the caller gave
NSpecs(arg) == IF arg.type = "list" THEN Len(arg.val)
               ELSE IF arg.type = "dict" THEN 1 ELSE 0

\* the attachments the caller is due: an absent value and an empty list give
\* one empty spec, a mapping gives itself, a list gives its specs in order
Attachments(arg) ==
  CASE arg.type = "None" -> <<EmptyNw>>
    [] arg.type = "dict" -> <<arg.val[1]>>
    [] arg.type = "list" /\ arg.val = <<>> -> <<EmptyNw>>
    [] OTHER -> arg.val

Max(a, b) == IF a >= b THEN a ELSE b

\* C16: startCompute normalises its network argument to the list of the
\* attachments due, of max(1, number of specs given) elements; every link it
\* requests from the fabric is the next of these, between the new container
\* and the switch; and when it returns the instance, the links of the
\* instance are exactly these, in order, and at least one.
C16_AtLeastOneAttachment ==
  [][\A t \in Threads :
       (th[t].op = "startCompute" /\ th'[t] # th[t]) =>
         /\ th[t].pc # "done"
            => /\ th[t].network = Attachments(th[t].arg)
               /\ Len(th[t].network) = Max(1, NSpecs(th[t].arg))
         /\ netLinks' # netLinks
            => netLinks' =
                 Append(netLinks,
                        [node1 |-> th[t].d, node2 |-> dcs[th[t].dc].switch,
                         params1 |-> Attachments(th[t].arg)
                                       [Len(LinksOf(th[t].d)) + 1]])
         /\ (th'[t].pc = "done" /\ th'[t].ret = "ok")
            => /\ LinksOf(th[t].d) = Attachments(th[t].arg)
               /\ Len(LinksOf(th[t].d)) >= 1
               /\ Len(LinksOf(th[t].d)) = Max(1, NSpecs(th[t].arg))
               /\ netLinks' = netLinks]_vars

\* a start that was given an empty list is about to return its instance,
\* which has got one link with the empty spec
C16_Witness ==
  \E t \in Threads :
    /\ th[t].pc = "startCompute_addLink"
    /\ LoopDone(t)
    /\ th[t].arg = [type |-> "list", val |-> <<>>]
    /\ LinksOf(th[t].d) = <<EmptyNw>>

\* container c is left in the fabric by a startCompute that has failed: no
\* containers map holds it and no call is at work on it
Orphaned(c) ==
  /\ c \in netContainers
  /\ ~InMap(c.id)
  /\ \A t \in Threads : th[t].pc \in {"idle", "done"} \/ th[t].d # c.id

\* C17: when allocate or addLink raises in startCompute, the call ends with
\* that error and undoes nothing, so the container stays in the fabric with
\* no entry in a containers map; it stays so for ever, and every later
\* startCompute with its name fails with NameConflict and every later
\* stopCompute with its name fails with NotFound.
C17_FailedStartBlocksName ==
  [][\A t \in Threads :
       /\ (/\ th[t].pc \in {"startCompute_allocate", "startCompute_addLink"}
           /\ th'[t].pc = "done"
           /\ th'[t].ret # "ok")
          => /\ th'[t].ret \in {"AllocationError", "FabricError"}
             /\ UNCHANGED <<dcs, fabric, rmodel>>
             /\ \E c \in netContainers :
                  /\ c.id = th[t].d /\ c.name = th[t].name
                  /\ Orphaned(c)'
       /\ \A c \in netContainers :
            Orphaned(c) =>
              /\ Orphaned(c)'
              /\ (th[t].pc = "idle" /\ th'[t].name = c.name
                  /\ th'[t].op = "startCompute")
                 => th'[t].pc = "done" /\ th'[t].ret = "NameConflict"
              /\ (th[t].pc = "idle" /\ th'[t].name = c.name
                  /\ th'[t].op = "stopCompute")
                 => th'[t].pc = "done" /\ th'[t].ret = "NotFound"]_vars

\* a start has failed after its container was created, and a later stop of
\* the same name by the same Datacenter has just been refused
C17_Witness ==
  \E c \in netContainers :
    /\ Orphaned(c)
    /\ nfail >= 1
    /\ th[Main].pc = "done"
    /\ th[Main].op = "stopCompute"
    /\ th[Main].ret = "NotFound"
    /\ th[Main].name = c.name
    /\ th[Main].dc = c.datacenter

\* C18: startCompute calls allocate for its instance exactly when a resource
\* model is assigned at that step, and stopCompute calls free for its
\* instance exactly when one is assigned at that step, whether or not the
\* instance was ever allocated; a call on a Datacenter without a model changes
\* nothing in the resource model.
C18_AllocFreeByCurrentModel ==
  [][\A t \in Threads :
       (th'[t] # th[t] /\ th[t].pc \notin {"idle", "done"}) =>
         LET has == dcs[th[t].dc].resource_model # None IN
         /\ (th[t].pc = "startCompute_allocate"
             /\ th'[t].pc = "startCompute_addLink")
            => rmAllocated' = [rmAllocated EXCEPT ![th[t].d] =
                                 @ + (IF has THEN 1 ELSE 0)]
         /\ (th[t].pc = "stopCompute_free"
             /\ th'[t].pc = "stopCompute_removeLink")
            => rmFreed' =
                 [rmFreed EXCEPT ![dcs[th[t].dc].containers[th[t].name]] =
                    @ + (IF has THEN 1 ELSE 0)]
         /\ ~has => UNCHANGED rmodel
         /\ rmAllocated' # rmAllocated => th[t].pc = "startCompute_allocate"
         /\ rmFreed' # rmFreed => th[t].pc = "stopCompute_free"]_vars

\* an instance started before its Datacenter got a model was stopped after:
\* it was freed and never allocated, while an instance started after the
\* model was assigned was allocated
C18_Witness ==
  \E i \in stopped : \E j \in Insts :
    /\ rmFreed[i] = 1 /\ rmAllocated[i] = 0
    /\ rmAllocated[j] = 1
    /\ th[Main].pc = "done" /\ th[Main].op = "startCompute"
    /\ th[Main].ret = "ok"

\* since the initial state, one instance was created, and it is the one
\* instance that was stopped: a startCompute has returned it and a
\* stopCompute of its name has returned; no collaborator call has raised, so
\* every other call since was refused by its check
RoundTripDone ==
  /\ Between(Main)
  /\ ninst = Cardinality(snap.netContainers) + 1
  /\ stopped = {ninst}
  /\ nfail = 0

\* C19: after a successful startCompute and a successful stopCompute of the
\* instance it returned, the Datacenters' attributes and containers maps, the
\* containers and links of the fabric and the instances with a grant are what
\* they were before the start; the name is in no map and not in the fabric,
\* and a startCompute of a name the fabric does not hold passes its check.
C19_StartStopRoundTrip ==
  /\ [](RoundTripDone => Summary = snap)
  /\ []((th[Main].pc = "done" /\ th[Main].op = "stopCompute"
         /\ th[Main].ret = "ok")
        => /\ th[Main].name \notin FabricNames
           /\ \A d \in DCIds : th[Main].name \notin DOMAIN dcs[d].containers)
  /\ [][(th[Main].pc = "idle" /\ th'[Main].op = "startCompute"
         /\ th'[Main].name \notin FabricNames)
        => th'[Main].pc = "startCompute_addDocker"]_vars

\* the stop of an instance that was started and granted in a Datacenter with
\* a resource model has just returned, while another instance keeps running
C19_Witness ==
  /\ RoundTripDone
  /\ th[Main].pc = "done" /\ th[Main].op = "stopCompute"
  /\ th[Main].ret = "ok"
  /\ dcs[th[Main].dc].resource_model # None
  /\ rmAllocated[ninst] = 1 /\ rmFreed[ninst] = 1
  /\ snap.netContainers # {}
  /\ netLinks # <<>>

\* Datacenter d has a resource model, no pair is registered for d, and no
\* assignResourceModel call on d is under way
Unregistered(d) ==
  /\ dcs[d].resource_model # None
  /\ \A k \in DOMAIN rm_registrar : rm_registrar[k][1] # d
  /\ \A t \in Threads : \/ th[t].pc \in {"idle", "done"}
                        \/ th[t].op # "assignResourceModel"
                        \/ th[t].dc # d

\* C20: assignResourceModel sets the Datacenter's model before it registers
\* the pair; when register raises, the call ends with that error, the model
\* stays assigned and no pair is registered; from then on the Datacenter
\* keeps its model, its pair is never registered, and every assignResourceModel
\* on it fails with AlreadyAssigned.
C20_AssignedNotRegistered ==
  [][\A t \in Threads :
       /\ (th[t].pc = "assignResourceModel_set" /\ th'[t] # th[t])
          => /\ dcs'[th[t].dc].resource_model = th[t].rm
             /\ rm_registrar' = rm_registrar
       /\ (th[t].pc = "assignResourceModel_register" /\ th'[t] # th[t])
          => /\ dcs' = dcs
             /\ dcs[th[t].dc].resource_model = th[t].rm
             /\ th'[t].pc = "done"
             /\ \/ /\ th'[t].ret = "ok"
                   /\ rm_registrar' =
                        Append(rm_registrar, <<th[t].dc, th[t].rm>>)
                \/ /\ th'[t].ret = "RegistrarError"
                   /\ rm_registrar' = rm_registrar
                   /\ Unregistered(th[t].dc)'
       /\ \A d \in DCIds :
            Unregistered(d) =>
              /\ Unregistered(d)'
              /\ dcs'[d].resource_model = dcs[d].resource_model
              /\ (th[t].pc = "idle" /\ th'[t].op = "assignResourceModel"
                  /\ th'[t].dc = d)
                 => th'[t].pc = "done" /\ th'[t].ret = "AlreadyAssigned"]_vars

\* register has raised for a Datacenter, and a later assignResourceModel of
\* another model on that Datacenter has just been refused
C20_Witness ==
  /\ th[Main].pc = "done"
  /\ th[Main].op = "assignResourceModel"
  /\ th[Main].ret = "AlreadyAssigned"
  /\ Unregistered(th[Main].dc)
  /\ th[Main].rm # dcs[th[Main].dc].resource_model
====
